---- MODULE Spec2Model ----
(***************************************************************************)
(* Model of src/app.py: the Streamlit lecture-to-notes application.        *)
(* Text is modelled as a sequence of one-character strings, so that        *)
(* split / join / strip / replace are computed character by character.     *)
(***************************************************************************)
EXTENDS Integers, Sequences, FiniteSets, TLC

(* ---------------------------- bounds ----------------------------------- *)
MaxTextLen == 7      \* longest text handed to clean_transcription (SpecClean)
MaxNotesLen == 4     \* longest "notes" string of a payload (SpecParse)
MaxRawLen == 2       \* longest raw text a transcription backend returns
MaxHistory == 1      \* accepted quiz submissions per user
MaxQuizLen == 6      \* longest quiz list of a package (SpecScore)
MaxQuiz == 5         \* quiz entries the quiz view keeps: quiz_data["quiz"][:5]

None == "None"

BoundedSeq(S, n) == UNION {[1..k -> S] : k \in 0..n}

(* ------------------------ Python str helpers --------------------------- *)
\* characters str.split() / str.strip() treat as whitespace
IsSpace(c) == c \in {" ", "\n"}

\* str.lower() on one character
LowerChar(c) == IF c = "A" THEN "a" ELSE IF c = "B" THEN "b" ELSE c

\* str.lower()
Lower(w) == [i \in DOMAIN w |-> LowerChar(w[i])]

RECURSIVE LStrip(_)
LStrip(s) == IF s # <<>> /\ IsSpace(Head(s)) THEN LStrip(Tail(s)) ELSE s

RECURSIVE RStrip(_)
RStrip(s) ==
    IF s # <<>> /\ IsSpace(s[Len(s)]) THEN RStrip(SubSeq(s, 1, Len(s) - 1)) ELSE s

\* str.strip()
Strip(s) == RStrip(LStrip(s))

\* str.split() with no separator: maximal runs of non-whitespace characters
RECURSIVE SplitLoop(_, _, _)
SplitLoop(s, cur, acc) ==
    IF s = <<>> THEN (IF cur = <<>> THEN acc ELSE Append(acc, cur))
    ELSE IF IsSpace(Head(s))
         THEN SplitLoop(Tail(s), <<>>, IF cur = <<>> THEN acc ELSE Append(acc, cur))
         ELSE SplitLoop(Tail(s), Append(cur, Head(s)), acc)

Split(s) == SplitLoop(s, <<>>, <<>>)

\* ' '.join(words)
RECURSIVE Join(_)
Join(words) ==
    IF words = <<>> THEN <<>>
    ELSE IF Len(words) = 1 THEN words[1]
    ELSE words[1] \o <<" ">> \o Join(Tail(words))

(* ------------------------ clean_transcription -------------------------- *)
\* the for loop of clean_transcription, with the comparison repeat_count <= 2
RECURSIVE CleanLoopLoose(_, _, _, _)
CleanLoopLoose(words, cleaned_words, prev_word, repeat_count) ==
    IF words = <<>> THEN cleaned_words
    ELSE LET word == Head(words) IN
         IF Lower(word) = Lower(prev_word)
         THEN CleanLoopLoose(Tail(words),
                        IF repeat_count + 1 <= 2 THEN Append(cleaned_words, word)
                                                 ELSE cleaned_words,
                        word, repeat_count + 1)
         ELSE CleanLoopLoose(Tail(words), Append(cleaned_words, word), word, 0)

clean_transcription_loose(text) ==
    Strip(Join(CleanLoopLoose(Split(text), <<>>, <<>>, 0)))

\* the for loop of clean_transcription
RECURSIVE CleanLoop(_, _, _, _)
CleanLoop(words, cleaned_words, prev_word, repeat_count) ==
    IF words = <<>> THEN cleaned_words
    ELSE LET word == Head(words) IN
         IF Lower(word) = Lower(prev_word)
         THEN CleanLoop(Tail(words),
                        IF repeat_count + 1 < 2 THEN Append(cleaned_words, word)
                                                ELSE cleaned_words,
                        word, repeat_count + 1)
         ELSE CleanLoop(Tail(words), Append(cleaned_words, word), word, 0)

clean_transcription(text) ==
    Strip(Join(CleanLoop(Split(text), <<>>, <<>>, 0)))


(* --------------------- response stripping and JSON --------------------- *)
\* the backtick character (U+0060), written as a named token
Backtick == "BACKTICK"
Fence == <<Backtick, Backtick, Backtick>>
JsonTag == <<"j", "s", "o", "n">>

\* str.startswith(prefix)
StartsWith(s, prefix) ==
    Len(s) >= Len(prefix) /\ SubSeq(s, 1, Len(prefix)) = prefix

\* str.split(sep): the pieces between non-overlapping occurrences of sep
RECURSIVE SplitOnLoop(_, _, _, _)
SplitOnLoop(s, sep, cur, acc) ==
    IF s = <<>> THEN Append(acc, cur)
    ELSE IF StartsWith(s, sep)
         THEN SplitOnLoop(SubSeq(s, Len(sep) + 1, Len(s)), sep, <<>>, Append(acc, cur))
         ELSE SplitOnLoop(Tail(s), sep, Append(cur, Head(s)), acc)

SplitOn(s, sep) == SplitOnLoop(s, sep, <<>>, <<>>)

\* str.replace(old, ""): every non-overlapping occurrence, left to right
RECURSIVE Remove(_, _)
Remove(s, old) ==
    IF s = <<>> THEN <<>>
    ELSE IF StartsWith(s, old) THEN Remove(SubSeq(s, Len(old) + 1, Len(s)), old)
    ELSE <<Head(s)>> \o Remove(Tail(s), old)

\* raw_text handed to json.loads: lines 574-577
StripResponse(response_text) ==
    LET stripped == Strip(response_text)
        unfenced == IF StartsWith(stripped, Fence)
                    THEN SplitOn(stripped, Fence)[2] ELSE stripped
    IN  Strip(Remove(unfenced, JsonTag))

(* JSON text is a sequence of characters and of lexical fragments that hold
   neither a fence nor the tag and are therefore inert under stripping:
     "{"  "}"  ","  "]"            punctuation
     KeyNotes                      "notes":"   (key, colon, opening quote)
     Quote                         the quote closing the notes string
     KeyFlashcards                 "flashcards":[...]
     KeyQuiz                       "quiz":[
     qA, qB                        one question object, answer "A" or "B"   *)
KeyNotes == "\"notes\":\""
Quote == "\""
KeyFlashcards == "\"flashcards\":[]"
KeyQuiz == "\"quiz\":["

RequiredKeys == {"notes", "flashcards", "quiz"}

\* a quiz question as the views use it: q["options"], q["answer"]
Question(a) == [options |-> <<"A", "B">>, answer |-> a]
QuestionToken(q) == IF q.answer = "A" THEN "qA" ELSE IF q.answer = "B" THEN "qB" ELSE "qC"
QuestionTokens == {"qA", "qB", "qC"}
QuestionOfToken(t) ==
    IF t = "qA" THEN Question("A") ELSE IF t = "qB" THEN Question("B") ELSE Question("C")

\* a parsed JSON object (a Python dict); ok = FALSE stands for None / no value
NoData == [ok |-> FALSE, keys |-> {}, notes |-> <<>>, quiz |-> <<>>]
EmptyDict == [ok |-> TRUE, keys |-> {}, notes |-> <<>>, quiz |-> <<>>]

\* json.dumps of a dict: members in the order notes, flashcards, quiz
Dumps(d) ==
    LET notes == IF "notes" \in d.keys
                 THEN << <<KeyNotes>> \o d.notes \o <<Quote>> >> ELSE <<>>
        cards == IF "flashcards" \in d.keys THEN << <<KeyFlashcards>> >> ELSE <<>>
        quiz  == IF "quiz" \in d.keys
                 THEN << <<KeyQuiz>> \o [i \in DOMAIN d.quiz |-> QuestionToken(d.quiz[i])]
                         \o <<"]">> >>
                 ELSE <<>>
        members == notes \o cards \o quiz
        RECURSIVE Commas(_)
        Commas(ms) == IF ms = <<>> THEN <<>>
                      ELSE IF Len(ms) = 1 THEN ms[1]
                      ELSE ms[1] \o <<",">> \o Commas(Tail(ms))
    IN  <<"{">> \o Commas(members) \o <<"}">>

\* index of the first element of s that is x, 0 if none
RECURSIVE IndexOf(_, _, _)
IndexOf(s, x, i) ==
    IF i > Len(s) THEN 0 ELSE IF s[i] = x THEN i ELSE IndexOf(s, x, i + 1)

\* json.loads on the text after "{": members separated by commas, then "}"
RECURSIVE ParseMember(_, _)
RECURSIVE ParseAfterMember(_, _)
ParseMember(t, d) ==
    IF t = <<>> THEN NoData
    ELSE IF Head(t) = KeyNotes THEN
        LET k == IndexOf(Tail(t), Quote, 1) IN
        IF k = 0 THEN NoData
        ELSE ParseAfterMember(SubSeq(Tail(t), k + 1, Len(Tail(t))),
                 [d EXCEPT !.keys = @ \cup {"notes"},
                           !.notes = SubSeq(Tail(t), 1, k - 1)])
    ELSE IF Head(t) = KeyFlashcards THEN
        ParseAfterMember(Tail(t), [d EXCEPT !.keys = @ \cup {"flashcards"}])
    ELSE IF Head(t) = KeyQuiz THEN
        LET k == IndexOf(Tail(t), "]", 1) IN
        IF k = 0 \/ \E i \in 1..(k - 1) : Tail(t)[i] \notin QuestionTokens THEN NoData
        ELSE ParseAfterMember(SubSeq(Tail(t), k + 1, Len(Tail(t))),
                 [d EXCEPT !.keys = @ \cup {"quiz"},
                           !.quiz = [i \in 1..(k - 1) |-> QuestionOfToken(Tail(t)[i])]])
    ELSE NoData
ParseAfterMember(t, d) ==
    IF t = <<"}">> THEN d
    ELSE IF t # <<>> /\ Head(t) = "," THEN ParseMember(Tail(t), d)
    ELSE NoData

\* json.loads: the dict, or NoData where json.loads raises JSONDecodeError
JsonLoads(t) ==
    IF t = <<"{", "}">> THEN EmptyDict
    ELSE IF t # <<>> /\ Head(t) = "{" THEN ParseMember(Tail(t), EmptyDict)
    ELSE NoData

\* lines 574-578: strip the response, then json.loads
ParseResponse(response_text) == JsonLoads(StripResponse(response_text))

\* the two forms a model response takes around a payload
Bare(d) == Dumps(d)
Fenced(d) == Fence \o JsonTag \o <<"\n">> \o Dumps(d) \o <<"\n">> \o Fence

(* ----------------------------- state ----------------------------------- *)
VARIABLES
    \* import probes, fixed for the process lifetime (lines 12-40, 395)
    WHISPER_AVAILABLE, ASSEMBLYAI_AVAILABLE, SR_AVAILABLE, RECORDING_AVAILABLE,
    ASSEMBLYAI_KEY,     \* TRUE when ASSEMBLYAI_API_KEY is configured
    \* st.session_state (lines 97-104, 194-203)
    logged_in, username, user_data,
    quiz_data, transcribed_text, current_view, quiz_submitted, quiz_results,
    uploaded,           \* value of the st.file_uploader widget
    selections,         \* values of the quiz form's radio widgets, <<>> when not shown
    attempt_by,         \* user who submitted the attempt held in quiz_results
    \* what the last script run did
    run_file,           \* file the transcription pipeline ran on, None if it did not run
    invoked,            \* backends invoked by that pipeline run, in order
    status_log,         \* kinds of message written to status_text by that run
    st_error,           \* st.error message of a button handler in the last run
    run_exception,      \* uncaught exception that ended the last run
    response,           \* outcome of the last model.generate_content call
    api_requests,       \* number of model.generate_content calls of the last run
    event,              \* the user interaction that triggered the last run
    \* harness of the pure-function specifications
    fn_arg,     \* argument of the pure function being applied
    fn_res,     \* its result
    fn_done     \* whether the function has been applied

flags == <<WHISPER_AVAILABLE, ASSEMBLYAI_AVAILABLE, SR_AVAILABLE, RECORDING_AVAILABLE,
           ASSEMBLYAI_KEY>>
session == <<logged_in, username, user_data, quiz_data, transcribed_text,
             current_view, quiz_submitted, quiz_results>>
lastrun == <<run_file, invoked, status_log, st_error, run_exception, response,
             api_requests, event>>
fn == <<fn_arg, fn_res, fn_done>>
quizform == <<selections, attempt_by>>
vars == <<flags, session, uploaded, quizform, lastrun, fn>>

Users == {"u1", "u2"}
Files == {"f1", "f2"}

\* passwords a user may type: two that pass validate_password, one that does not
StrongPw1 == <<"P", "a", "s", "s", "w", "0", "r", "d", "!">>
StrongPw2 == <<"S", "e", "c", "r", "e", "t", "1", "2", "#">>
WeakPw == <<"a", "b", "c">>
\* typed into the Sign Up tab
SignUpPasswords == {StrongPw1, WeakPw}
\* typed into the Login tab
LoginPasswords == {StrongPw1, StrongPw2}

UpperChars == {"P", "S"}
LowerChars == {"a", "b", "c", "d", "e", "r", "s", "t", "w"}
DigitChars == {"0", "1", "2"}
SpecialChars == {"!", "#"}

\* validate_password, lines 80-92: TRUE when the password is accepted
validate_password(password) ==
    /\ Len(password) >= 8
    /\ \E i \in DOMAIN password : password[i] \in UpperChars
    /\ \E i \in DOMAIN password : password[i] \in LowerChars
    /\ \E i \in DOMAIN password : password[i] \in DigitChars
    /\ \E i \in DOMAIN password : password[i] \in SpecialChars

\* user_data[u] of a username that is not a key of user_data
NoUser == [registered |-> FALSE, password |-> <<>>, history |-> <<>>,
           total_quizzes |-> 0, total_score |-> 0]

\* st.session_state.quiz_results = None
NoResults == [set |-> FALSE, score |-> 0, total |-> 0, percent |-> 0,
              user_answers |-> <<>>, questions |-> <<>>]

NoResponse == [sent |-> FALSE, ok |-> FALSE, text |-> <<>>]
\* a user interaction: the widget used, the number of unanswered questions of a
\* quiz submission, and the username and password typed into the login form
Event(op, n) == [op |-> op, n |-> n, u |-> "", p |-> <<>>]
NoEvent == Event("start", 0)

\* truthiness of st.session_state.quiz_data: None and {} are falsy
Truthy(d) == d.ok /\ d.keys # {}

Options == {"A", "B"}

Min(a, b) == IF a < b THEN a ELSE b

\* line 644 without the [:5] slice
QuizQuestionsUnclipped(data) == data.quiz

\* line 644
QuizQuestions(data) == SubSeq(data.quiz, 1, Min(MaxQuiz, Len(data.quiz)))

\* lines 641, 644, 647: the quiz form is shown by a run that ends in this state
QuizFormRendered(li, data, view, submitted) ==
    li /\ Truthy(data) /\ view = "quiz" /\ "quiz" \in data.keys /\ ~submitted

\* lines 658-664: the radios of a run; a radio keeps its value across runs that
\* show it, starts unselected (index=None), and is forgotten by a run without it
RenderedSelections(li, data, view, submitted, kept) ==
    IF QuizFormRendered(li, data, view, submitted)
    THEN IF DOMAIN kept = DOMAIN QuizQuestions(data)
         THEN kept
         ELSE [i \in DOMAIN QuizQuestions(data) |-> None]
    ELSE <<>>

\* the radios after a run of any handler but the form's own
Rerender ==
    selections' = RenderedSelections(logged_in', quiz_data', current_view',
                                     quiz_submitted', selections)

\* the attempt held in quiz_results keeps its submitter until it is cleared
AttemptKept == attempt_by' = IF quiz_results'.set THEN attempt_by ELSE ""

\* the pure-function harness is idle in the application specifications
FnIdle == fn_arg = <<>> /\ fn_res = <<>> /\ fn_done = FALSE

\* the application state is idle in the pure-function specifications
AppIdle ==
    /\ WHISPER_AVAILABLE = FALSE /\ ASSEMBLYAI_AVAILABLE = FALSE
    /\ SR_AVAILABLE = FALSE /\ RECORDING_AVAILABLE = FALSE /\ ASSEMBLYAI_KEY = FALSE
    /\ logged_in = FALSE /\ username = "" /\ user_data = [u \in Users |-> NoUser]
    /\ quiz_data = NoData /\ transcribed_text = <<>> /\ current_view = "home"
    /\ quiz_submitted = FALSE /\ quiz_results = NoResults
    /\ uploaded = None /\ selections = <<>> /\ attempt_by = ""
    /\ run_file = None /\ invoked = <<>> /\ status_log = <<>> /\ st_error = ""
    /\ run_exception = "" /\ response = NoResponse /\ api_requests = 0
    /\ event = NoEvent

(* ------------------- transcription pipeline (253-518) ------------------ *)
RawChars == {"a", " "}
RawTexts == BoundedSeq(RawChars, MaxRawLen)

\* what one backend call does: return a text, raise, or (AssemblyAI) end with
\* transcript.status == error; Skipped stands for a backend that is not called
Skipped == [kind |-> "skipped", raw |-> <<>>]
Raised == [kind |-> "exception", raw |-> <<>>]
ErrorStatus == [kind |-> "error_status", raw |-> <<>>]
Returned(raw_text) == [kind |-> "text", raw |-> raw_text]
BackendOutcomes == {Raised} \cup {Returned(r) : r \in RawTexts}

Call(name, o) == [backend |-> name, kind |-> o.kind, raw |-> o.raw]

\* line 376 with the fallback to the raw text left out
WhisperStoredCleanedOnly(raw_text) == clean_transcription(raw_text)

\* lines 373-376: cleaned_text if cleaned_text else raw_text
WhisperStored(raw_text) ==
    LET cleaned_text == clean_transcription(raw_text)
    IN  IF cleaned_text # <<>> THEN cleaned_text ELSE raw_text

\* lines 423-425
AssemblyStored(raw_text) ==
    LET cleaned_text == clean_transcription(raw_text)
    IN  IF cleaned_text # <<>> THEN cleaned_text ELSE raw_text

\* lines 482-487
SRStored(raw_text) ==
    LET cleaned_text == clean_transcription(raw_text)
    IN  IF Len(Strip(cleaned_text)) > 0 THEN cleaned_text ELSE raw_text

\* progress of one pipeline run: the stored transcript, the backends invoked,
\* the messages written to status_text
StartOfRun == [text |-> transcribed_text, invoked |-> <<>>, log |-> <<>>]

\* lines 343-391
WhisperBranch(st, o) ==
    IF o.kind = "text"
    THEN [text |-> WhisperStored(o.raw),
          invoked |-> Append(st.invoked, Call("whisper", o)),
          log |-> Append(st.log, "success")]
    ELSE [st EXCEPT !.invoked = Append(@, Call("whisper", o)),
                    !.log = Append(@, "error")]

\* lines 394-441
AssemblyBranch(st, o) ==
    IF ~ASSEMBLYAI_KEY THEN [st EXCEPT !.log = Append(@, "warning")]
    ELSE IF o.kind = "text"
    THEN [text |-> AssemblyStored(o.raw),
          invoked |-> Append(st.invoked, Call("assemblyai", o)),
          log |-> Append(st.log, "success")]
    ELSE [st EXCEPT !.invoked = Append(@, Call("assemblyai", o)),
                    !.log = Append(@, "error")]

\* lines 343, 394: if WHISPER_AVAILABLE ... elif ASSEMBLYAI_AVAILABLE ...
FirstBranch(st, w, a) ==
    IF WHISPER_AVAILABLE THEN WhisperBranch(st, w)
    ELSE IF ASSEMBLYAI_AVAILABLE THEN AssemblyBranch(st, a)
    ELSE st

\* lines 444-518
FallbackBranch(st, o) ==
    IF st.text = <<>> /\ SR_AVAILABLE
    THEN IF o.kind = "text"
         THEN [text |-> SRStored(o.raw),
               invoked |-> Append(st.invoked, Call("speech_recognition", o)),
               log |-> Append(st.log, "success")]
         ELSE [text |-> <<>>,
               invoked |-> Append(st.invoked, Call("speech_recognition", o)),
               log |-> Append(st.log, "error")]
    ELSE IF st.text = <<>>
    THEN [st EXCEPT !.log = Append(@, "error")]
    ELSE st

\* the outcomes of the calls the run makes; a backend that is not called has none
WhisperOutcomes(outcomes) == IF WHISPER_AVAILABLE THEN outcomes ELSE {Skipped}
AssemblyOutcomes(outcomes) ==
    IF ~WHISPER_AVAILABLE /\ ASSEMBLYAI_AVAILABLE /\ ASSEMBLYAI_KEY
    THEN outcomes \cup {ErrorStatus} ELSE {Skipped}
FallbackOutcomes(st, outcomes) ==
    IF st.text = <<>> /\ SR_AVAILABLE THEN outcomes ELSE {Skipped}

\* body of "if uploaded and not st.session_state.transcribed_text", lines 253-518;
\* outcomes is the set the backend calls of this run draw their results from
Transcribe(file, outcomes) ==
    /\ run_file' = file
    /\ \E converted \in BOOLEAN :
         IF ~converted
         THEN \* lines 319-323: status_text.error, st.stop()
              /\ invoked' = <<>>
              /\ status_log' = <<"error">>
              /\ UNCHANGED transcribed_text
         ELSE \E w \in WhisperOutcomes(outcomes), a \in AssemblyOutcomes(outcomes) :
                LET first == FirstBranch(StartOfRun, w, a) IN
                \E s \in FallbackOutcomes(first, outcomes) :
                   LET last == FallbackBranch(first, s) IN
                   /\ transcribed_text' = last.text
                   /\ invoked' = last.invoked
                   /\ status_log' = last.log

NoTranscription ==
    /\ run_file' = None /\ invoked' = <<>> /\ status_log' = <<>>
    /\ UNCHANGED transcribed_text

\* line 253: the pipeline runs when a file is supplied and no transcript is stored
Pipeline(file, outcomes) ==
    IF file # None /\ transcribed_text = <<>>
    THEN Transcribe(file, outcomes) ELSE NoTranscription

NoGeneration == response' = NoResponse /\ api_requests' = 0

\* lines 641-644: the quiz view indexes quiz_data["quiz"] on every run that shows it
ViewException(data, view) ==
    IF Truthy(data) /\ view = "quiz" /\ "quiz" \notin data.keys THEN "KeyError" ELSE ""

(* ------------------------ login page (107-165) ------------------------- *)
\* Login button, lines 119-130
Login(u, p) ==
    /\ ~logged_in
    /\ event' = [Event("Login", 0) EXCEPT !.u = u, !.p = p]
    /\ IF u # "" /\ p # <<>>
       THEN IF user_data[u].registered
            THEN /\ logged_in' = TRUE
                 /\ username' = u
                 /\ st_error' = ""
                 /\ run_exception' = ViewException(quiz_data, current_view)
            ELSE /\ st_error' = "User not found"
                 /\ run_exception' = ""
                 /\ UNCHANGED <<logged_in, username>>
       ELSE /\ st_error' = "Please enter username and password"
            /\ run_exception' = ""
            /\ UNCHANGED <<logged_in, username>>
    \* line 253 is false: the uploader is empty while the login page is shown
    /\ NoTranscription
    /\ NoGeneration
    /\ UNCHANGED <<flags, user_data, quiz_data, current_view, quiz_submitted,
                   quiz_results, uploaded, fn>>
    /\ AttemptKept
    /\ Rerender

\* Create Account button, lines 145-164
SignUp(u, p) ==
    /\ ~logged_in
    /\ event' = Event("SignUp", 0)
    /\ IF u # "" /\ p # <<>>
       THEN IF ~validate_password(p)
            THEN /\ st_error' = "weak password"
                 /\ run_exception' = ""
                 /\ UNCHANGED <<logged_in, username, user_data>>
            ELSE IF user_data[u].registered
            THEN /\ st_error' = "Username already exists"
                 /\ run_exception' = ""
                 /\ UNCHANGED <<logged_in, username, user_data>>
            ELSE /\ logged_in' = TRUE
                 /\ username' = u
                 /\ user_data' = [user_data EXCEPT ![u] =
                        [registered |-> TRUE, password |-> p, history |-> <<>>,
                         total_quizzes |-> 0, total_score |-> 0]]
                 /\ st_error' = ""
                 /\ run_exception' = ViewException(quiz_data, current_view)
       ELSE /\ st_error' = "Please fill in all fields"
            /\ run_exception' = ""
            /\ UNCHANGED <<logged_in, username, user_data>>
    \* line 253 is false: the uploader is empty while the login page is shown
    /\ NoTranscription
    /\ NoGeneration
    /\ UNCHANGED <<flags, quiz_data, current_view, quiz_submitted, quiz_results,
                   uploaded, fn>>
    /\ AttemptKept
    /\ Rerender

(* ------------------------- main page (170-260) ------------------------- *)
\* lines 178-181 with the study package and the quiz state destroyed on logout
LogoutDestroysSession ==
    /\ logged_in
    /\ event' = Event("Logout", 0)
    /\ logged_in' = FALSE
    /\ username' = ""
    /\ quiz_data' = NoData
    /\ current_view' = "home"
    /\ quiz_submitted' = FALSE
    /\ quiz_results' = NoResults
    /\ uploaded' = None
    /\ st_error' = ""
    /\ run_exception' = ""
    /\ NoTranscription
    /\ NoGeneration
    /\ UNCHANGED <<flags, user_data, fn>>
    /\ AttemptKept
    /\ Rerender

\* Logout button, lines 178-181; the run that follows shows the login page and
\* stops at line 165, so the file uploader is not rendered and loses its value
Logout ==
    /\ logged_in
    /\ event' = Event("Logout", 0)
    /\ logged_in' = FALSE
    /\ username' = ""
    /\ uploaded' = None
    /\ st_error' = ""
    /\ run_exception' = ""
    /\ NoTranscription
    /\ NoGeneration
    /\ UNCHANGED <<flags, user_data, quiz_data, current_view, quiz_submitted,
                   quiz_results, fn>>
    /\ AttemptKept
    /\ Rerender

\* a file is put into st.file_uploader (lines 226-228); the script runs
UploadFile(f, outcomes) ==
    /\ logged_in
    /\ f # uploaded
    /\ event' = Event("UploadFile", 0)
    /\ uploaded' = f
    /\ Pipeline(f, outcomes)
    /\ st_error' = ""
    /\ run_exception' = ViewException(quiz_data, current_view)
    /\ NoGeneration
    /\ UNCHANGED <<flags, logged_in, username, user_data, quiz_data, current_view,
                   quiz_submitted, quiz_results, fn>>
    /\ AttemptKept
    /\ Rerender

\* the file is taken out of st.file_uploader; the script runs
RemoveFile ==
    /\ logged_in
    /\ uploaded # None
    /\ event' = Event("RemoveFile", 0)
    /\ uploaded' = None
    /\ NoTranscription
    /\ st_error' = ""
    /\ run_exception' = ViewException(quiz_data, current_view)
    /\ NoGeneration
    /\ UNCHANGED <<flags, logged_in, username, user_data, quiz_data, current_view,
                   quiz_submitted, quiz_results, fn>>
    /\ AttemptKept
    /\ Rerender

\* the Recording Duration slider is moved (line 212); the script runs with the
\* uploader's file still in place
MoveSlider(outcomes) ==
    /\ logged_in
    /\ RECORDING_AVAILABLE
    /\ event' = Event("MoveSlider", 0)
    /\ Pipeline(uploaded, outcomes)
    /\ st_error' = ""
    /\ run_exception' = ViewException(quiz_data, current_view)
    /\ NoGeneration
    /\ UNCHANGED <<flags, logged_in, username, user_data, quiz_data, current_view,
                   quiz_submitted, quiz_results, uploaded, fn>>
    /\ AttemptKept
    /\ Rerender

\* Start Recording button, lines 214-222: the recording is the run's file and the
\* uploader is not rendered in this run (line 226)
StartRecording(outcomes) ==
    /\ logged_in
    /\ RECORDING_AVAILABLE
    /\ event' = Event("StartRecording", 0)
    /\ uploaded' = None
    /\ Pipeline("recording", outcomes)
    /\ st_error' = ""
    /\ run_exception' = ViewException(quiz_data, current_view)
    /\ NoGeneration
    /\ UNCHANGED <<flags, logged_in, username, user_data, quiz_data, current_view,
                   quiz_submitted, quiz_results, fn>>
    /\ AttemptKept
    /\ Rerender

\* session state after the first run of the script (lines 97-104, 194-203)
InitSession ==
    /\ logged_in = FALSE /\ username = "" /\ user_data = [u \in Users |-> NoUser]
    /\ quiz_data = NoData /\ transcribed_text = <<>> /\ current_view = "home"
    /\ quiz_submitted = FALSE /\ quiz_results = NoResults
    /\ uploaded = None /\ selections = <<>> /\ attempt_by = ""
    /\ run_file = None /\ invoked = <<>> /\ status_log = <<>> /\ st_error = ""
    /\ run_exception = "" /\ response = NoResponse /\ api_requests = 0
    /\ event = NoEvent
    /\ FnIdle

(* ---------- SpecTranscribe: login, upload and transcription ------------ *)
InitTranscribe ==
    /\ WHISPER_AVAILABLE \in BOOLEAN /\ ASSEMBLYAI_AVAILABLE \in BOOLEAN
    /\ SR_AVAILABLE \in BOOLEAN /\ RECORDING_AVAILABLE \in BOOLEAN
    /\ ASSEMBLYAI_KEY \in BOOLEAN
    /\ InitSession

NextTranscribe ==
    \/ \E u \in Users, p \in SignUpPasswords : SignUp(u, p)
    \/ \E u \in Users, p \in LoginPasswords : Login(u, p)
    \/ Logout
    \/ \E f \in Files : UploadFile(f, BackendOutcomes)
    \/ RemoveFile
    \/ MoveSlider(BackendOutcomes)
    \/ StartRecording(BackendOutcomes)

SpecTranscribe == InitTranscribe /\ [][NextTranscribe]_vars

\* declared preference order of the backends (spec 4.1; lines 343, 394, 444)
Rank(b) == CASE b = "whisper" -> 1 [] b = "assemblyai" -> 2 [] b = "speech_recognition" -> 3
Backends == {"whisper", "assemblyai", "speech_recognition"}

Available(b) ==
    CASE b = "whisper" -> WHISPER_AVAILABLE
      [] b = "assemblyai" -> ASSEMBLYAI_AVAILABLE /\ ASSEMBLYAI_KEY
      [] b = "speech_recognition" -> SR_AVAILABLE

\* a call failed totally: it raised, ended in error status, or returned no text
FailedTotally(c) == c.kind # "text" \/ c.raw = <<>>

\* C1: within one run the backends are invoked in the order Whisper, AssemblyAI,
\* SpeechRecognition, and a backend is invoked only after every available backend
\* of higher preference was invoked in that run and failed totally.
C1_PreferenceOrder ==
    /\ \A i, j \in DOMAIN invoked :
         i < j => Rank(invoked[i].backend) < Rank(invoked[j].backend)
    /\ \A i \in DOMAIN invoked : \A b \in Backends :
         (Rank(b) < Rank(invoked[i].backend) /\ Available(b)) =>
             \E j \in 1..(i - 1) : invoked[j].backend = b /\ FailedTotally(invoked[j])

\* C2: a transcription run that ends with an empty stored transcript has written
\* an error to the user and does not end on a success message.
C2_EmptyTranscriptReportsError ==
    (run_file # None /\ transcribed_text = <<>>) =>
        /\ \E i \in DOMAIN status_log : status_log[i] = "error"
        /\ status_log[Len(status_log)] # "success"

\* C3: after a run in which every tried backend failed and the transcript stayed
\* empty, a later script run with the same file still in the uploader invokes no
\* backend.
C3_ExhaustionIsTerminal ==
    [][(/\ run_file # None /\ run_file = uploaded
        /\ invoked # <<>> /\ transcribed_text = <<>>
        /\ uploaded' = uploaded)
       => invoked' = <<>>]_vars

\* C5: whenever a backend returned a non-empty raw text in the run, the stored
\* transcript is non-empty: the cleaned text if that is non-empty, else the raw text.
C5_CleanupNeverErases ==
    \A i \in DOMAIN invoked :
        (invoked[i].kind = "text" /\ invoked[i].raw # <<>>) =>
            /\ transcribed_text # <<>>
            /\ transcribed_text =
                 IF clean_transcription(invoked[i].raw) # <<>>
                 THEN clean_transcription(invoked[i].raw) ELSE invoked[i].raw

\* a backend returned a non-empty text that cleans to nothing; the raw text is stored
C5_Witness ==
    \E i \in DOMAIN invoked :
        /\ invoked[i].kind = "text" /\ invoked[i].raw # <<>>
        /\ clean_transcription(invoked[i].raw) = <<>>
        /\ transcribed_text = invoked[i].raw

(* ---------------------- generation (547-588) --------------------------- *)
\* payloads the generative model may return
AppNotes == <<"n">>
FullPayload == [ok |-> TRUE, keys |-> RequiredKeys, notes |-> AppNotes,
                quiz |-> <<Question("A"), Question("B")>>]
EmptyQuizPayload == [ok |-> TRUE, keys |-> RequiredKeys, notes |-> AppNotes, quiz |-> <<>>]
NoQuizPayload == [ok |-> TRUE, keys |-> {"notes", "flashcards"}, notes |-> AppNotes,
                  quiz |-> <<>>]
Prose == <<"n", "o">>

\* outcomes of model.generate_content (line 573): it raises, or returns a text
ApiOutcomes ==
    {[sent |-> TRUE, ok |-> FALSE, text |-> <<>>]} \cup
    {[sent |-> TRUE, ok |-> TRUE, text |-> t] :
        t \in {Bare(FullPayload), Fenced(FullPayload), Bare(EmptyQuizPayload),
               Bare(NoQuizPayload), Prose}}

\* the except branch with the stored package dropped
GenerateFailedClears ==
    /\ st_error' = "Gemini API Error"
    /\ quiz_data' = NoData
    /\ UNCHANGED <<current_view, quiz_submitted, quiz_results>>

\* lines 587-588: except Exception -> st.error
GenerateFailed ==
    /\ st_error' = "Gemini API Error"
    /\ UNCHANGED <<quiz_data, current_view, quiz_submitted, quiz_results>>

\* lines 580-585
GenerateStored(data) ==
    /\ quiz_data' = data
    /\ current_view' = "notes"
    /\ quiz_submitted' = FALSE
    /\ quiz_results' = NoResults
    /\ st_error' = ""

\* Generate button, lines 552-588
Generate ==
    /\ logged_in
    /\ transcribed_text # <<>>
    /\ event' = Event("Generate", 0)
    \* line 253 is false: a transcript is stored whenever this handler is reachable
    /\ NoTranscription
    /\ api_requests' = 1
    /\ \E r \in ApiOutcomes :
         /\ response' = r
         /\ IF r.ok /\ ParseResponse(r.text).ok
            THEN GenerateStored(ParseResponse(r.text))
            ELSE GenerateFailed
    /\ run_exception' = ViewException(quiz_data', current_view')
    /\ UNCHANGED <<flags, logged_in, username, user_data, uploaded, fn>>
    /\ AttemptKept
    /\ Rerender

(* ---------------------- navigation (593-617) --------------------------- *)
\* Notes, Flashcards and History buttons
NavTo(view) ==
    /\ logged_in
    /\ Truthy(quiz_data)
    /\ event' = Event("Nav", 0)
    /\ current_view' = view
    \* line 253 is false: a transcript is stored whenever this handler is reachable
    /\ NoTranscription
    /\ st_error' = ""
    /\ run_exception' = ViewException(quiz_data, view)
    /\ NoGeneration
    /\ UNCHANGED <<flags, logged_in, username, user_data, quiz_data, quiz_submitted,
                   quiz_results, uploaded, fn>>
    /\ AttemptKept
    /\ Rerender

\* Quiz button, lines 608-612
NavQuiz ==
    /\ logged_in
    /\ Truthy(quiz_data)
    /\ event' = Event("NavQuiz", 0)
    /\ current_view' = "quiz"
    /\ quiz_submitted' = FALSE
    /\ quiz_results' = NoResults
    \* line 253 is false: a transcript is stored whenever this handler is reachable
    /\ NoTranscription
    /\ st_error' = ""
    /\ run_exception' = ViewException(quiz_data, "quiz")
    /\ NoGeneration
    /\ UNCHANGED <<flags, logged_in, username, user_data, quiz_data, uploaded, fn>>
    /\ AttemptKept
    /\ Rerender

(* ------------------------ quiz view (641-748) -------------------------- *)

\* any(...) in place of all(...)
AnyAnswered(user_answers) == \E i \in DOMAIN user_answers : user_answers[i] # None

\* line 669
AllAnswered(user_answers) == \A i \in DOMAIN user_answers : user_answers[i] # None

\* line 679
Score(quiz_questions, user_answers) ==
    Cardinality({i \in DOMAIN quiz_questions : user_answers[i] = quiz_questions[i].answer})

\* lines 679-681: score, total and percent (the whole part of the percentage)
QuizResult(quiz_questions, user_answers) ==
    LET score == Score(quiz_questions, user_answers)
        total == Len(quiz_questions)
    IN  [score |-> score, total |-> total, percent |-> (score * 100) \div total]

\* line 694 without the append
AppendHistoryDropped(history, result) == history

\* lines 693-700
AppendHistory(history, result) == Append(history, result)

\* line 703 adding the number of questions
TotalScoreAfterTotal(total_score, result) == total_score + result.total

\* line 703
TotalScoreAfter(total_score, result) == total_score + result.score

\* lines 693-703 done for every registered user
RecordAttemptForAll(ud, user, result) ==
    [u \in DOMAIN ud |->
        IF ud[u].registered
        THEN [ud[u] EXCEPT !.history = AppendHistory(@, result),
                           !.total_quizzes = @ + 1,
                           !.total_score = TotalScoreAfter(@, result)]
        ELSE ud[u]]

\* lines 693-703: the attempt goes into the record of the user given
RecordAttempt(ud, user, result) ==
    [ud EXCEPT ![user].history = AppendHistory(@, result),
               ![user].total_quizzes = @ + 1,
               ![user].total_score = TotalScoreAfter(@, result)]

\* lines 684-704
SubmitAccepted(quiz_questions, user_answers) ==
    LET result == QuizResult(quiz_questions, user_answers)
        score == result.score
        total == result.total
        percent == result.percent
    IN  /\ quiz_results' = [set |-> TRUE, score |-> score, total |-> total,
                            percent |-> percent, user_answers |-> user_answers,
                            questions |-> quiz_questions]
        /\ quiz_submitted' = TRUE
        /\ user_data' = RecordAttempt(user_data, username, result)
        /\ attempt_by' = username
        /\ st_error' = ""
        /\ run_exception' = ""

\* Submit Quiz button of the form, lines 649-708
Submit(user_answers) ==
    /\ logged_in
    /\ Truthy(quiz_data) /\ current_view = "quiz" /\ "quiz" \in quiz_data.keys
    /\ ~quiz_submitted
    /\ LET quiz_questions == QuizQuestions(quiz_data) IN
       /\ DOMAIN user_answers = DOMAIN quiz_questions
       /\ event' = Event("Submit",
                       Cardinality({i \in DOMAIN user_answers : user_answers[i] = None}))
       /\ IF AllAnswered(user_answers)
          THEN IF Len(quiz_questions) = 0
               THEN \* line 681 divides by total
                    /\ run_exception' = "ZeroDivisionError"
                    /\ st_error' = ""
                    /\ UNCHANGED <<quiz_results, quiz_submitted, user_data, attempt_by>>
               ELSE /\ Len(user_data[username].history) < MaxHistory
                    /\ SubmitAccepted(quiz_questions, user_answers)
          ELSE /\ st_error' = "Please answer all questions!"
               /\ run_exception' = ""
               /\ UNCHANGED <<quiz_results, quiz_submitted, user_data, attempt_by>>
    \* line 253 is false: a transcript is stored whenever this handler is reachable
    /\ NoTranscription
    /\ NoGeneration
    /\ UNCHANGED <<flags, logged_in, username, quiz_data, current_view, uploaded, fn>>
    /\ selections' = RenderedSelections(logged_in', quiz_data', current_view',
                                        quiz_submitted', user_answers)

\* Retake Quiz button, lines 745-748
Retake ==
    /\ logged_in
    /\ Truthy(quiz_data) /\ current_view = "quiz" /\ "quiz" \in quiz_data.keys
    /\ quiz_submitted /\ quiz_results.set
    /\ event' = Event("Retake", 0)
    /\ quiz_submitted' = FALSE
    /\ quiz_results' = NoResults
    \* line 253 is false: a transcript is stored whenever this handler is reachable
    /\ NoTranscription
    /\ st_error' = ""
    /\ run_exception' = ""
    /\ NoGeneration
    /\ UNCHANGED <<flags, logged_in, username, user_data, quiz_data, current_view,
                   uploaded, fn>>
    /\ AttemptKept
    /\ Rerender

(* ---------------- Spec: the application, cloud deployment -------------- *)
\* the cloud deployment: only speech_recognition is importable and recording is
\* off (lines 26-31, 223-224), so the slider and the record button do not exist
Init ==
    /\ WHISPER_AVAILABLE = FALSE /\ ASSEMBLYAI_AVAILABLE = FALSE
    /\ SR_AVAILABLE = TRUE /\ RECORDING_AVAILABLE = FALSE
    /\ ASSEMBLYAI_KEY = FALSE
    /\ InitSession

\* backend results of the application specification: raise, no text, a text
AppOutcomes == {Raised, Returned(<<>>), Returned(<<"a">>)}

Next ==
    \/ \E u \in Users, p \in SignUpPasswords : SignUp(u, p)
    \/ \E u \in Users, p \in LoginPasswords : Login(u, p)
    \/ Logout
    \/ UploadFile("f1", AppOutcomes)
    \/ RemoveFile
    \/ Generate
    \/ \E view \in {"notes", "flashcards", "history"} : NavTo(view)
    \/ NavQuiz
    \/ \E ua \in [DOMAIN QuizQuestions(quiz_data) -> Options \cup {None}] : Submit(ua)
    \/ Retake

Spec == Init /\ [][Next]_vars

\* the guard of line 253 is false in every run of a handler modelled without
\* the pipeline: the uploader is empty on the login page, and a package is
\* stored only while a transcript is
PipelineGuardFalse ==
    /\ ~logged_in => uploaded = None
    /\ quiz_data.ok => transcribed_text # <<>>

\* C8: a package is stored only when the parsed response holds the three keys
\* notes, flashcards and quiz, so no run fails on a missing key of the package.
C8_StoredPackageHasRequiredKeys ==
    /\ quiz_data.ok => RequiredKeys \subseteq quiz_data.keys
    /\ run_exception # "KeyError"

\* C9: a click on Generate sends exactly one request; a failed request (it
\* raised, or its text does not parse) leaves quiz_data, current_view,
\* quiz_submitted and quiz_results as they were; quiz_data changes only to the
\* value parsed from a response of that click.
C9_GenerateOnceNoRetry ==
    [][/\ event'.op = "Generate" => api_requests' = 1
       /\ (event'.op = "Generate" /\ ~(response'.ok /\ ParseResponse(response'.text).ok))
            => UNCHANGED <<quiz_data, current_view, quiz_submitted, quiz_results>>
       /\ quiz_data' # quiz_data =>
            /\ event'.op = "Generate" /\ response'.ok
            /\ ParseResponse(response'.text).ok
            /\ quiz_data' = ParseResponse(response'.text)]_vars

\* a generation failed while a package with a submitted quiz was stored
C9_Witness ==
    /\ event.op = "Generate" /\ api_requests = 1
    /\ ~(response.ok /\ ParseResponse(response.text).ok)
    /\ Truthy(quiz_data) /\ quiz_submitted /\ quiz_results.set
    /\ current_view = "quiz"

\* C10: a Submit with at least one unanswered question changes no session state:
\* quiz_submitted stays false, quiz_results stays empty, user_data is unchanged.
C10_IncompleteSubmitRejected ==
    [][(event'.op = "Submit" /\ event'.n > 0) =>
          /\ UNCHANGED session
          /\ ~quiz_submitted' /\ quiz_results' = NoResults]_vars

\* Submit was pressed with some questions answered and some not
C10_Witness ==
    /\ event.op = "Submit" /\ event.n > 0 /\ event.n < Len(QuizQuestions(quiz_data))
    /\ st_error = "Please answer all questions!"
    /\ ~quiz_submitted

(* ------------- SpecClean: clean_transcription on every text ------------ *)
CleanChars == {"a", "A", "b", " "}

InitClean ==
    /\ AppIdle
    /\ fn_arg \in BoundedSeq(CleanChars, MaxTextLen)
    /\ fn_res = <<>>
    /\ fn_done = FALSE

ApplyClean ==
    /\ ~fn_done
    /\ fn_res' = clean_transcription(fn_arg)
    /\ fn_done' = TRUE
    /\ UNCHANGED <<fn_arg, flags, session, uploaded, quizform, lastrun>>

NextClean == ApplyClean

SpecClean == InitClean /\ [][NextClean]_vars

\* token i of the input survives unless the two tokens before it are both
\* case-insensitively equal to it (it is then the 3rd or later of a run)
KeptTokens(tokens) ==
    LET keep(i) == ~(i >= 3 /\ Lower(tokens[i]) = Lower(tokens[i-1])
                            /\ Lower(tokens[i]) = Lower(tokens[i-2]))
        RECURSIVE Walk(_)
        Walk(i) == IF i > Len(tokens) THEN <<>>
                   ELSE (IF keep(i) THEN <<tokens[i]>> ELSE <<>>) \o Walk(i + 1)
    IN Walk(1)

NoTripleRun(tokens) ==
    \A i \in 3..Len(tokens) :
        ~(Lower(tokens[i]) = Lower(tokens[i-1]) /\ Lower(tokens[i]) = Lower(tokens[i-2]))

\* C4: clean_transcription returns the input tokens in order, each maximal run
\* of 3 or more case-insensitively equal tokens cut to its first 2 tokens, every
\* other token kept, and never more than 2 consecutive equal tokens in the output.
C4_CleanTruncatesRuns ==
    fn_done =>
        /\ fn_res = Join(KeptTokens(Split(fn_arg)))
        /\ NoTripleRun(Split(fn_res))

\* a text with a run of 3 or more tokens has been cleaned and lost tokens
C4_Witness ==
    /\ fn_done
    /\ ~NoTripleRun(Split(fn_arg))
    /\ Len(Split(fn_res)) < Len(Split(fn_arg))

(* ------------- SpecParse: response parsing on every payload ------------ *)
NotesChars == {"j", "s", "o", "n", Backtick}

\* payloads that conform to the schema of the prompt (lines 559-568)
ConformingPayloads ==
    { [ok |-> TRUE, keys |-> RequiredKeys, notes |-> ns, quiz |-> <<Question("A")>>] :
        ns \in BoundedSeq(NotesChars, MaxNotesLen) }

InitParse ==
    /\ AppIdle
    /\ fn_arg \in ConformingPayloads
    /\ fn_res = <<>>
    /\ fn_done = FALSE

ApplyParse ==
    /\ ~fn_done
    /\ fn_res' = [bare_text   |-> StripResponse(Bare(fn_arg)),
                  fenced_text |-> StripResponse(Fenced(fn_arg)),
                  bare        |-> ParseResponse(Bare(fn_arg)),
                  fenced      |-> ParseResponse(Fenced(fn_arg))]
    /\ fn_done' = TRUE
    /\ UNCHANGED <<fn_arg, flags, session, uploaded, quizform, lastrun>>

NextParse == ApplyParse

SpecParse == InitParse /\ [][NextParse]_vars

\* C6: a conforming payload wrapped in a json-tagged fence parses to the same
\* result (same value or same failure) as the bare payload.
C6_FencedParsesAsBare ==
    fn_done => fn_res.fenced = fn_res.bare

\* C7: the text handed to the JSON parser is exactly the payload the model
\* emitted, for the bare and for the fenced response.
C7_StripKeepsPayload ==
    fn_done => /\ fn_res.bare_text = Dumps(fn_arg)
               /\ fn_res.fenced_text = Dumps(fn_arg)

\* the attempt held in quiz_results is an entry of its submitter's history
AttemptRecorded ==
    /\ attempt_by \in Users
    /\ \E i \in DOMAIN user_data[attempt_by].history :
         LET entry == user_data[attempt_by].history[i] IN
         /\ entry.score = quiz_results.score
         /\ entry.total = quiz_results.total
         /\ entry.percent = quiz_results.percent

\* the quiz is unanswered: the form is shown with no option selected
Unanswered ==
    /\ ~quiz_submitted
    /\ quiz_results = NoResults
    /\ DOMAIN selections = DOMAIN QuizQuestions(quiz_data)
    /\ \A i \in DOMAIN selections : selections[i] = None

\* C12: a scored attempt is discarded only after it is recorded: whenever
\* quiz_results is cleared (Retake, Quiz button, new generation) the history of
\* the user who submitted it already holds an entry with its score; after Retake
\* the quiz is Unanswered (not submitted, no results, no selections).
C12_ClearedOnlyAfterRecorded ==
    [][ /\ (quiz_results.set /\ ~quiz_results'.set) => AttemptRecorded
        /\ (event'.op = "Retake") => Unanswered' ]_vars

\* a Retake has just discarded an attempt of the user, who has it in the history
C12_Witness ==
    /\ event.op = "Retake"
    /\ Unanswered
    /\ Len(QuizQuestions(quiz_data)) > 0
    /\ Len(user_data[username].history) > 0

\* C13: the Login button sets logged_in only when the username is registered
\* and the password typed equals the stored one; otherwise logged_in stays false.
C13_LoginChecksPassword ==
    (event.op = "Login") =>
        (logged_in <=> /\ user_data[event.u].registered
                       /\ event.p = user_data[event.u].password)

\* the step is a quiz submission that was accepted (lines 677-706)
SubmitWasAccepted == event'.op = "Submit" /\ ~quiz_submitted /\ quiz_submitted'

\* h2 is h1 with entries added at the end
Extends(h2, h1) == Len(h2) >= Len(h1) /\ SubSeq(h2, 1, Len(h1)) = h1

RECURSIVE SumScores(_)
SumScores(history) ==
    IF history = <<>> THEN 0
    ELSE history[Len(history)].score + SumScores(SubSeq(history, 1, Len(history) - 1))

C16_LogoutKeepsSession ==
    [][ /\ (event'.op = "Logout") =>
              /\ ~logged_in' /\ username' = ""
              /\ UNCHANGED <<transcribed_text, quiz_data, current_view, quiz_submitted,
                             quiz_results, user_data>>
        /\ (event'.op = "Login") =>
              UNCHANGED <<transcribed_text, quiz_data, current_view, quiz_submitted,
                          quiz_results, user_data>>
        /\ (event'.op = "SignUp") =>
              /\ UNCHANGED <<transcribed_text, quiz_data, current_view, quiz_submitted,
                             quiz_results>>
              /\ \A u \in Users : user_data[u].registered => user_data'[u] = user_data[u]
      ]_vars

\* after a logout another user has logged in and finds the transcript, the
\* package, the quiz view and the scored attempt of the user before
C16_Witness ==
    /\ event.op = "Login" /\ logged_in
    /\ transcribed_text # <<>> /\ Truthy(quiz_data) /\ current_view = "quiz"
    /\ quiz_submitted /\ quiz_results.set
    /\ attempt_by \in Users \ {username}

\* C17: whatever the length of the stored quiz list (0 to 5 after clipping), a
\* submission with no unanswered question is accepted: quiz_submitted becomes
\* true, quiz_results holds score, total and percent, one history entry is
\* appended, and the percentage is not computed with total = 0.
C17_CompleteSubmitAccepted ==
    [][ (event'.op = "Submit" /\ event'.n = 0) =>
            /\ quiz_submitted'
            /\ quiz_results'.set
            /\ Len(user_data'[username].history) = Len(user_data[username].history) + 1
            /\ run_exception' # "ZeroDivisionError" ]_vars

(* ------------- SpecScore: scoring on every quiz and selection ---------- *)
\* questions whose answer is the first option or the second
ScoreQuestions == {Question("A"), Question("B")}

\* a stored quiz list and one selected option per question of the form
ScoreInputs ==
    UNION { { [quiz |-> q, user_answers |-> ua] :
                ua \in [DOMAIN QuizQuestions([quiz |-> q]) -> Options] } :
            q \in BoundedSeq(ScoreQuestions, MaxQuizLen) }

NoScore == [raised |-> FALSE, score |-> 0, total |-> 0, percent |-> 0]

InitScore ==
    /\ AppIdle
    /\ fn_arg \in ScoreInputs
    /\ fn_res = NoScore
    /\ fn_done = FALSE

\* lines 644, 677-681 with every question answered
ApplyScore ==
    /\ ~fn_done
    /\ LET quiz_questions == QuizQuestions(fn_arg) IN
       fn_res' = IF Len(quiz_questions) = 0
                 THEN [NoScore EXCEPT !.raised = TRUE]
                 ELSE LET r == QuizResult(quiz_questions, fn_arg.user_answers)
                      IN  [raised |-> FALSE, score |-> r.score, total |-> r.total,
                           percent |-> r.percent]
    /\ fn_done' = TRUE
    /\ UNCHANGED <<fn_arg, flags, session, uploaded, quizform, lastrun>>

NextScore == ApplyScore

SpecScore == InitScore /\ [][NextScore]_vars

\* number of the first k quiz entries whose selected option is the answer
RECURSIVE CorrectAmong(_, _, _)
CorrectAmong(quiz, user_answers, k) ==
    IF k = 0 THEN 0
    ELSE CorrectAmong(quiz, user_answers, k - 1)
         + (IF user_answers[k] = quiz[k].answer THEN 1 ELSE 0)

\* C11: on an accepted submission the score is the number of questions, among at
\* most the first 5 quiz entries, whose selected option equals the answer;
\* 0 <= score <= total <= 5; all-correct selections on 5 questions give 5 and 100.
C11_ScoreCountsCorrect ==
    (fn_done /\ ~fn_res.raised) =>
        LET k == IF Len(fn_arg.quiz) < 5 THEN Len(fn_arg.quiz) ELSE 5 IN
        /\ fn_res.total = k
        /\ fn_res.score = CorrectAmong(fn_arg.quiz, fn_arg.user_answers, k)
        /\ 0 <= fn_res.score /\ fn_res.score <= fn_res.total /\ fn_res.total <= 5
        /\ (k = 5 /\ \A i \in 1..5 : fn_arg.user_answers[i] = fn_arg.quiz[i].answer)
              => (fn_res.score = 5 /\ fn_res.percent = 100)

\* a package with more than 5 quiz entries was scored, all 5 shown answered right
C11_Witness ==
    /\ fn_done /\ ~fn_res.raised
    /\ Len(fn_arg.quiz) > 5
    /\ fn_res.score = 5 /\ fn_res.total = 5 /\ fn_res.percent = 100
====
